---- MODULE Spec2Model ----
(***************************************************************************)
(* Model of cuenv's TaskExecutor (src/src/task_executor.rs): the           *)
(* construction of the execution plan (build_execution_plan,               *)
(* collect_dependencies, topological_sort), the level-by-level concurrent  *)
(* execution of execute_tasks_with_dependencies and the command line and   *)
(* exit code of execute_single_task; and of the cache store that           *)
(* src/tests/performance_concurrent_test.rs calls, after sections 4.2 and  *)
(* 6 of the specification.                                                 *)
(***************************************************************************)
EXTENDS Integers, Sequences, FiniteSets, TLC

(***************************************************************************)
(* Bounds of the model.                                                    *)
(***************************************************************************)
\* most dependency entries of a configuration, over all its tasks (planning
\* specification)
MaxEdges == 3
\* longest list of requested task names (planning specification)
MaxRoots == 2
\* most dependency entries of a configuration, over all its tasks (execution
\* specification)
MaxRunEdges == 2
\* longest list of requested task names (execution specification)
MaxRunRoots == 2

\* most dependency entries of a configuration (specification of task
\* definitions)
MaxDefEdges == 1
\* longest list of requested task names (specification of task definitions)
MaxDefRoots == 2
\* longest list of user arguments (specification of task definitions)
MaxDefArgs == 1
\* longest list of user arguments (specification of a single task)
MaxArgs == 2
\* most calls of execute_task on one executor (specification of cached runs)
MaxRuns == 2
\* most timestamps the cache store hands out (specification of the cache)
MaxClock == 2
\* most dependency entries and requested roots (specification of termination)
MaxLiveEdges == 2
MaxLiveRoots == 1
\* longest timeout of a task, and longest time a child process is followed,
\* in units of time (specification of timeouts)
MaxTimeout == 1
MaxWait == 2

\* The task names that configurations and requests are drawn from.
Names == {"a", "b", "c"}
\* The task names of the specification of task definitions.
DefNames == {"a", "b"}
\* The words user arguments are made of.
ArgWords == {"x", "y"}
\* The largest exit code a child process can report.
MaxExitCode == 255

\* Exit codes a child process may report.
ExitCodes == {0, 1}

VARIABLES
    all_tasks,     \* env_manager.get_tasks(): task name -> TaskConfig
    task_names,    \* the requested roots (argument of execute_tasks_with_dependencies)
    pc,            \* position of execute_tasks_with_dependencies
    built,         \* what build_execution_plan returned: Ok(plan) or Err(..)
    level,         \* index of the level being executed (1-based)
    next_launch,   \* index in the level of the next task the launch loop spawns
    unit,          \* per task: position of its spawned unit of work
    outcome,       \* per task: what execute_single_task returned
    starts,        \* per task: how many times its child process was started
    failed_tasks,  \* the Arc<Mutex<Vec<(String, i32)>>> of the current level
    result,        \* what execute_tasks_with_dependencies returned
    args,          \* the user arguments (argument of execute_tasks_with_dependencies)
    invoked,       \* per task: the shell and payload of the Command built for it
    exited,        \* per task: the exit status its child process ended with
    runs,          \* how many times execute_task was called on this executor
    mutex,         \* the holder of the lock of failed_tasks, if it is held
    running_for,   \* per task: the time its child process has been running
    cache_files,   \* the cache directory: path -> content of the file
    inputs,        \* the digest of the current content of the input files
    clock,         \* the time of the cache store
    cache_op,      \* per client of the cache store: its call in progress
    last_put,      \* per key: the arguments of the last put that succeeded
    got            \* per client: what its last get was asked and returned

\* the state of the cache store and of its clients
cache_vars == <<cache_files, inputs, clock, cache_op, last_put, got>>

vars == <<all_tasks, task_names, pc, built, level, next_launch, unit, outcome,
          starts, failed_tasks, result, args, invoked, exited, runs, mutex,
          running_for, cache_vars>>

(***************************************************************************)
(* Values.                                                                 *)
(***************************************************************************)
\* Result<T>
Ok(v) == [tag |-> "Ok", val |-> v]
Err(m) == [tag |-> "Err", msg |-> m]
IsOk(r) == r.tag = "Ok"
IsErr(r) == r.tag = "Err"
NoResult == [tag |-> "None"]

\* Option<T>
None == [tag |-> "None"]
Some(v) == [tag |-> "Some", val |-> v]
unwrap_or(option, default) == IF option = None THEN default ELSE option.val

\* Error messages, as the sequence of their words (the format strings of the
\* source, with the quotes around names dropped).
TaskNotFoundMsg(t) == <<"Task", t, "not", "found">>
\* the message worded without "circular"
CyclicInvolvingMsg(t) ==
    <<"Cyclic", "dependency", "detected", "involving", "task", t>>
CircularInvolvingMsg(t) ==
    <<"Circular", "dependency", "detected", "involving", "task", t>>
DependencyNotFoundMsg(d, t) ==
    <<"Dependency", d, "of", "task", t, "not", "found">>
CircularGraphMsg == <<"Circular", "dependency", "detected", "in", "task", "graph">>
TasksFailedMsg(names) == <<"Tasks", "failed:">> \o names

\* Sequence helpers.
Range(s) == {s[i] : i \in 1..Len(s)}
SeqsUpTo(S, n) == UNION {[1..k -> S] : k \in 0..n}
Perms(S) ==
    {s \in [1..Cardinality(S) -> S] :
        \A i, j \in 1..Cardinality(S) : i # j => s[i] # s[j]}
\* msg contains the words of sub, consecutively
ContainsWords(msg, sub) ==
    \E i \in 0..(Len(msg) - Len(sub)) :
        \A j \in 1..Len(sub) : msg[i + j] = sub[j]

(***************************************************************************)
(* collect_dependencies: recursive DFS.  The traversal state is            *)
(* [deps, visited, stack, err]; err is the Err(..) that `?` propagates, or *)
(* NoResult.                                                               *)
(***************************************************************************)
RECURSIVE collect_dependencies(_, _, _)
RECURSIVE collect_each(_, _, _, _, _)

\* the loop without the contains_key check of the dependency
collect_each_unchecked(task_name, dependencies, i, tasks, st) ==
    IF i > Len(dependencies) THEN st
    ELSE LET st1 == collect_dependencies(dependencies[i], tasks, st)
         IN IF st1.err # NoResult THEN st1
            ELSE collect_each(task_name, dependencies, i + 1, tasks, st1)

\* the `for dep_name in &dependencies` loop of task_name, from index i
collect_each(task_name, dependencies, i, tasks, st) ==
    IF i > Len(dependencies) THEN st
    ELSE IF dependencies[i] \notin DOMAIN tasks
         THEN [st EXCEPT !.err =
                  Err(DependencyNotFoundMsg(dependencies[i], task_name))]
         ELSE LET st1 == collect_dependencies(dependencies[i], tasks, st)
              IN IF st1.err # NoResult THEN st1
                 ELSE collect_each(task_name, dependencies, i + 1, tasks, st1)

\* the traversal marking a task visited on entry, with no stack check
collect_dependencies_visit_on_entry(task_name, tasks, st) ==
    IF task_name \in st.visited THEN st
    ELSE LET st1 == [st EXCEPT !.visited = @ \cup {task_name}] IN
         IF task_name \notin DOMAIN tasks
         THEN [st1 EXCEPT !.err = Err(TaskNotFoundMsg(task_name))]
         ELSE LET dependencies == tasks[task_name].dependencies
                  st2 == collect_each(task_name, dependencies, 1, tasks, st1)
              IN IF st2.err # NoResult THEN st2
                 ELSE [st2 EXCEPT
                         !.deps = [n \in (DOMAIN st2.deps) \cup {task_name} |->
                                     IF n = task_name THEN dependencies
                                     ELSE st2.deps[n]]]

\* the traversal leaving a finished task on the stack
collect_dependencies_keeping_stack(task_name, tasks, st) ==
    IF task_name \in st.stack
    THEN [st EXCEPT !.err = Err(CircularInvolvingMsg(task_name))]
    ELSE IF task_name \in st.visited THEN st
    ELSE LET st1 == [st EXCEPT !.stack = @ \cup {task_name}] IN
         IF task_name \notin DOMAIN tasks
         THEN [st1 EXCEPT !.err = Err(TaskNotFoundMsg(task_name))]
         ELSE LET dependencies == tasks[task_name].dependencies
                  st2 == collect_each(task_name, dependencies, 1, tasks, st1)
              IN IF st2.err # NoResult THEN st2
                 ELSE [st2 EXCEPT
                         !.deps = [n \in (DOMAIN st2.deps) \cup {task_name} |->
                                     IF n = task_name THEN dependencies
                                     ELSE st2.deps[n]]]

\* lines 153-198
collect_dependencies(task_name, tasks, st) ==
    IF task_name \in st.stack
    THEN [st EXCEPT !.err = Err(CircularInvolvingMsg(task_name))]
    ELSE IF task_name \in st.visited THEN st
    ELSE LET st1 == [st EXCEPT !.stack = @ \cup {task_name}] IN
         IF task_name \notin DOMAIN tasks
         THEN [st1 EXCEPT !.err = Err(TaskNotFoundMsg(task_name))]
         ELSE LET dependencies == tasks[task_name].dependencies
                  st2 == collect_each(task_name, dependencies, 1, tasks, st1)
              IN IF st2.err # NoResult THEN st2
                 ELSE [st2 EXCEPT
                         !.deps = [n \in (DOMAIN st2.deps) \cup {task_name} |->
                                     IF n = task_name THEN dependencies
                                     ELSE st2.deps[n]],
                         !.visited = @ \cup {task_name},
                         !.stack = @ \ {task_name}]

\* the `for task_name in task_names` loop of build_execution_plan, from index i
RECURSIVE collect_roots(_, _, _, _)
collect_roots(roots, i, tasks, st) ==
    IF i > Len(roots) THEN st
    ELSE LET st1 == collect_dependencies(roots[i], tasks, st)
         IN IF st1.err # NoResult THEN st1
            ELSE collect_roots(roots, i + 1, tasks, st1)

(***************************************************************************)
(* topological_sort: Kahn's algorithm by levels.  A HashMap iterates in an *)
(* order the program does not control: dep_order is the order in which     *)
(* `dependencies` is iterated (first loop), deg_order the order in which   *)
(* `in_degree` is iterated (initial queue); each is some order of the keys *)
(* of its map.                                                             *)
(***************************************************************************)
\* whether d occurs in the list deps, as 1 or 0
occurs_once(deps, d) == IF \E i \in 1..Len(deps) : deps[i] = d THEN 1 ELSE 0

\* how many times d occurs in the list deps
Occurrences(deps, d) == Cardinality({i \in 1..Len(deps) : deps[i] = d})

\* <<t, ..., t>>, n times
Repeat(t, n) == [i \in 1..n |-> t]

\* graph[d] after the first loop: d's dependents, pushed once per occurrence
\* of d in their list, in the iteration order of `dependencies`
RECURSIVE graph_of(_, _, _, _)
graph_of(dependencies, dep_order, i, d) ==
    IF i > Len(dep_order) THEN <<>>
    ELSE Repeat(dep_order[i], Occurrences(dependencies[dep_order[i]], d))
         \o graph_of(dependencies, dep_order, i + 1, d)

\* in_degree as a flag "has dependencies" instead of a count
in_degree_flag(dependencies, t) ==
    IF t \in DOMAIN dependencies /\ dependencies[t] # <<>> THEN 1 ELSE 0

\* in_degree[t] after the first loop: one increment per listed dependency;
\* a name that is only a dependency is entered with 0
in_degree_of(dependencies, t) ==
    IF t \in DOMAIN dependencies THEN Len(dependencies[t]) ELSE 0

\* keys of in_degree and graph after the first loop
degree_keys(dependencies) ==
    (DOMAIN dependencies)
    \cup UNION {Range(dependencies[t]) : t \in DOMAIN dependencies}

\* <<task, dependent>> for every dependent in list, in order
pairs_of(task, list) == [k \in 1..Len(list) |-> <<task, list[k]>>]

\* the decrements of one level, in order: for task in current_level,
\* for dependent in graph[task]; each as <<task, dependent>>
RECURSIVE dependents_of_level(_, _, _)
dependents_of_level(graph, current_level, i) ==
    IF i > Len(current_level) THEN <<>>
    ELSE pairs_of(current_level[i], graph[current_level[i]])
         \o dependents_of_level(graph, current_level, i + 1)

\* the loop pushing `task` where the code pushes `dependent`
RECURSIVE decrement_all_push_task(_, _, _)
decrement_all_push_task(dependents, i, st) ==
    IF i > Len(dependents) THEN st
    ELSE LET dependent == dependents[i][2]
             degree == st.in_degree[dependent] - 1
         IN decrement_all_push_task(dependents, i + 1,
                [in_degree |-> [st.in_degree EXCEPT ![dependent] = degree],
                 queue |-> IF degree = 0 THEN Append(st.queue, dependents[i][1])
                           ELSE st.queue])

\* lines 234-239, for the decrements from index i on: st = [in_degree, queue]
RECURSIVE decrement_all(_, _, _)
decrement_all(dependents, i, st) ==
    IF i > Len(dependents) THEN st
    ELSE LET dependent == dependents[i][2]
             degree == st.in_degree[dependent] - 1
         IN decrement_all(dependents, i + 1,
                [in_degree |-> [st.in_degree EXCEPT ![dependent] = degree],
                 queue |-> IF degree = 0 THEN Append(st.queue, dependent)
                           ELSE st.queue])

\* the loop taking one task of the queue per level
RECURSIVE kahn_levels_one_at_a_time(_, _, _, _)
kahn_levels_one_at_a_time(graph, in_degree, queue, levels) ==
    IF queue = <<>> THEN levels
    ELSE LET st == decrement_all(dependents_of_level(graph, <<Head(queue)>>, 1), 1,
                                 [in_degree |-> in_degree, queue |-> Tail(queue)])
         IN kahn_levels_one_at_a_time(graph, st.in_degree, st.queue,
                                      Append(levels, <<Head(queue)>>))

\* the `while !queue.is_empty()` loop
RECURSIVE kahn_levels(_, _, _, _)
kahn_levels(graph, in_degree, queue, levels) ==
    IF queue = <<>> THEN levels
    ELSE LET st == decrement_all(dependents_of_level(graph, queue, 1), 1,
                                 [in_degree |-> in_degree, queue |-> <<>>])
         IN kahn_levels(graph, st.in_degree, st.queue, Append(levels, queue))

\* the names of order whose in-degree is 0, in order
RECURSIVE filter_zero(_, _, _)
filter_zero(order, i, in_degree) ==
    IF i > Len(order) THEN <<>>
    ELSE (IF in_degree[order[i]] = 0 THEN <<order[i]>> ELSE <<>>)
         \o filter_zero(order, i + 1, in_degree)

RECURSIVE processed_count(_, _)
processed_count(levels, i) ==
    IF i > Len(levels) THEN 0 ELSE Len(levels[i]) + processed_count(levels, i + 1)

\* lines 201-256; dep_order is the order in which `dependencies` iterates,
\* deg_order the order in which `in_degree` iterates
topological_sort(dependencies, dep_order, deg_order) ==
    LET keys == degree_keys(dependencies)
        in_degree == [t \in keys |-> in_degree_of(dependencies, t)]
        graph == [d \in keys |-> graph_of(dependencies, dep_order, 1, d)]
        queue == filter_zero(deg_order, 1, in_degree)
        levels == kahn_levels(graph, in_degree, queue, <<>>)
    IN IF processed_count(levels, 1) # Cardinality(DOMAIN dependencies)
       THEN Err(CircularGraphMsg)
       ELSE Ok(levels)

(***************************************************************************)
(* build_execution_plan                                                    *)
(***************************************************************************)
\* the validation looking at the first requested name only
first_missing_head_only(roots, i, tasks) ==
    IF i <= Len(roots) /\ i = 1 /\ roots[i] \notin DOMAIN tasks THEN i ELSE 0

\* the validation loop: the first requested name that is no task, or 0
RECURSIVE first_missing(_, _, _)
first_missing(roots, i, tasks) ==
    IF i > Len(roots) THEN 0
    ELSE IF roots[i] \notin DOMAIN tasks THEN i
    ELSE first_missing(roots, i + 1, tasks)

\* lines 110-133: validate the requested names, then collect the dependency
\* graph of each; Ok(task_dependencies) or the first error
resolve_dependencies(roots, tasks) ==
    LET missing == first_missing(roots, 1, tasks) IN
    IF missing # 0 THEN Err(TaskNotFoundMsg(roots[missing]))
    ELSE LET st == collect_roots(roots, 1, tasks,
                       [deps |-> <<>>, visited |-> {}, stack |-> {},
                        err |-> NoResult])
         IN IF st.err # NoResult THEN st.err ELSE Ok(st.deps)

\* the plan's tasks taken to be every configured task
plan_of_all_tasks(task_dependencies, tasks, dep_order, deg_order) ==
    LET levels == topological_sort(task_dependencies, dep_order, deg_order)
    IN IF IsErr(levels) THEN levels
       ELSE Ok([levels |-> levels.val, tasks |-> DOMAIN tasks])

\* lines 135-149: the levels, and the plan's tasks (the keys of
\* task_dependencies that are tasks of the configuration)
plan_of(task_dependencies, tasks, dep_order, deg_order) ==
    LET levels == topological_sort(task_dependencies, dep_order, deg_order)
    IN IF IsErr(levels) THEN levels
       ELSE Ok([levels |-> levels.val,
                tasks |-> (DOMAIN task_dependencies) \cap (DOMAIN tasks)])

\* the orders in which a HashMap with these keys may iterate
IterationOrders(keys) == Perms(keys)

\* lines 107-150: every value build_execution_plan can return for these
\* requested names and tasks, over the iteration orders of its maps
build_execution_plan(roots, tasks) ==
    LET resolved == resolve_dependencies(roots, tasks) IN
    IF IsErr(resolved) THEN {resolved}
    ELSE {plan_of(resolved.val, tasks, dep_order, deg_order) :
             dep_order \in IterationOrders(DOMAIN resolved.val),
             deg_order \in IterationOrders(degree_keys(resolved.val))}

(***************************************************************************)
(* execute_single_task, lines 264-292: what is executed.  A String is      *)
(* modelled as the sequence of its pieces (words and separators).          *)
(***************************************************************************)
BothDefinedMsg ==
    <<"Task", "cannot", "have", "both", "command", "and", "script", "defined">>
NeitherDefinedMsg ==
    <<"Task", "must", "have", "either", "command", "or", "script", "defined">>
FailedToExecuteMsg == <<"Failed", "to", "execute", "task">>

\* the words put one after the other with nothing between them
concat(words, sep) == words

\* args.join(" ")
RECURSIVE join(_, _)
join(words, sep) ==
    IF words = <<>> THEN <<>>
    ELSE IF Len(words) = 1 THEN <<words[1]>>
    ELSE <<words[1], sep>> \o join(Tail(words), sep)

\* a definition with both command and script run as its command
script_content_preferring_command(task_config, task_arguments) ==
    IF task_config.command # None
    THEN Ok([shell |-> unwrap_or(task_config.shell, "sh"),
             script_content |->
                 IF task_arguments = <<>> THEN <<task_config.command.val>>
                 ELSE <<task_config.command.val, " ">> \o join(task_arguments, " ")])
    ELSE IF task_config.script # None
    THEN Ok([shell |-> unwrap_or(task_config.shell, "sh"),
             script_content |-> <<task_config.script.val>>])
    ELSE Err(NeitherDefinedMsg)

\* lines 264-292: the (shell, script_content) of the match, or its error
script_content(task_config, task_arguments) ==
    IF task_config.command # None /\ task_config.script = None
    THEN Ok([shell |-> unwrap_or(task_config.shell, "sh"),
             script_content |->
                 IF task_arguments = <<>> THEN <<task_config.command.val>>
                 ELSE <<task_config.command.val, " ">> \o join(task_arguments, " ")])
    ELSE IF task_config.command = None /\ task_config.script # None
    THEN Ok([shell |-> unwrap_or(task_config.shell, "sh"),
             script_content |-> <<task_config.script.val>>])
    ELSE IF task_config.command # None /\ task_config.script # None
    THEN Err(BothDefinedMsg)
    ELSE Err(NeitherDefinedMsg)

(***************************************************************************)
(* The cache store.                                                        *)
(***************************************************************************)
\* the cache keys: hex digests, as the sequence of their characters
CacheKeys == {<<"a", "b", "1">>, <<"a", "b", "2">>, <<"c", "d", "1">>}
\* the digests the input files may have
InputDigests == {"d1", "d2"}
\* the clients of the cache store
Clients == {1, 2}
\* a directory without files
NoFiles == <<>>

\* the key of a task (the fingerprint of its name, definition, environment
\* and working directory, all fixed here but the name)
generate_cache_key(task_name) ==
    IF task_name = "a" THEN <<"a", "b", "1">>
    ELSE IF task_name = "b" THEN <<"a", "b", "2">>
    ELSE <<"c", "d", "1">>

\* the directory of an entry named by the first two characters of its key
\* alone
entry_path_of_prefix(key, file) == <<SubSeq(key, 1, 2), <<>>, file>>

\* <cache_root>/<first two characters of the key>/<rest of the key>/<file>
entry_path(key, file) == <<SubSeq(key, 1, 2), SubSeq(key, 3, Len(key)), file>>
meta_path(key) == entry_path(key, "meta")
\* one tmp sibling of the meta file for all the writers of a key
tmp_path_shared(key, writer) == entry_path(key, "meta.tmp")
\* the tmp sibling of the meta file that a writer of the key writes to
tmp_path(key, writer) ==
    entry_path(key, IF writer = 1 THEN "meta.1.tmp" ELSE "meta.2.tmp")

\* the file system primitives the store uses
write_file(files, path, content) == (path :> content) @@ files
remove_file(files, path) == [q \in (DOMAIN files) \ {path} |-> files[q]]
rename(files, from, to) == write_file(remove_file(files, from), to, files[from])

\* the metadata of an entry
CacheEntry(exit_code, timestamp, task_name, input_digest) ==
    [exit_code |-> exit_code, timestamp |-> timestamp, task_name |-> task_name,
     input_digest |-> input_digest]

\* the content of a meta file: the fields of the entry in the order of the
\* layout (exit_code, timestamp, task_name, input_digest)
serialize(entry) ==
    <<entry.exit_code, entry.timestamp, entry.task_name, entry.input_digest>>

\* the entry of a meta file, or none when the file does not parse
deserialize(content) ==
    IF Len(content) = 4
    THEN Some(CacheEntry(content[1], content[2], content[3], content[4]))
    ELSE None

\* get: the entry stored under the key, when its meta file is present,
\* parses and records the current digest of the inputs
get_cached_result(key, files, current_digest) ==
    IF meta_path(key) \notin DOMAIN files THEN None
    ELSE LET entry == deserialize(files[meta_path(key)]) IN
         IF entry = None THEN None
         ELSE IF entry.val.input_digest # current_digest THEN None
         ELSE entry

(***************************************************************************)
(* Configurations and requests.                                            *)
(***************************************************************************)
\* the fields of a task other than its dependencies
TaskDefinitions(commands, scripts, shells, caches) ==
    [command : commands, script : scripts, shell : shells, cache : caches,
     timeout : {None}]

\* a task with a command, the default shell and no cache directive
PlainDefinitions ==
    TaskDefinitions({Some("cmd")}, {None}, {None}, {None})
\* tasks with and without command and script
AnyDefinitions ==
    TaskDefinitions({None, Some("cmd")}, {None, Some("body")}, {None}, {None})
\* tasks with and without command, script and shell
AnyShellDefinitions ==
    TaskDefinitions({None, Some("cmd")}, {None, Some("body")},
                    {None, Some("bash")}, {None})
\* runnable tasks with and without the cache directive
CacheDefinitions ==
    TaskDefinitions({Some("cmd")}, {None}, {None},
                    {None, Some(FALSE), Some(TRUE)})

\* runnable tasks with and without a timeout, in units of time
TimeoutDefinitions ==
    {[definition EXCEPT !.timeout = timeout] :
        definition \in PlainDefinitions,
        timeout \in {None} \cup {Some(d) : d \in 1..MaxTimeout}}

TaskConfig(definition, dependencies) ==
    [command |-> definition.command, script |-> definition.script,
     shell |-> definition.shell, cache |-> definition.cache,
     timeout |-> definition.timeout, dependencies |-> dependencies]

\* every configuration with these keys, definitions among these, dependency
\* names among these and at most max_edges dependency entries in all
RECURSIVE ConfigurationsOver(_, _, _, _)
ConfigurationsOver(keys, names, definitions, max_edges) ==
    IF keys = {} THEN {<<>>}
    ELSE LET k == CHOOSE n \in keys : TRUE IN
         UNION {{(k :> TaskConfig(definition, d)) @@ rest :
                    definition \in definitions,
                    rest \in ConfigurationsOver(keys \ {k}, names, definitions,
                                                max_edges - Len(d))} :
                d \in SeqsUpTo(names, max_edges)}

\* every configuration over a non-empty subset of the names
ConfigurationsOf(names, definitions, max_edges) ==
    UNION {ConfigurationsOver(keys, names, definitions, max_edges) :
              keys \in (SUBSET names) \ {{}}}

\* every configuration of plain tasks over a non-empty subset of Names
Configurations(max_edges) == ConfigurationsOf(Names, PlainDefinitions, max_edges)

\* a cache directory without files, and clients that have called nothing
EmptyCache ==
    /\ cache_files = NoFiles
    /\ clock = 0
    /\ cache_op = [c \in Clients |-> None]
    /\ last_put = [k \in CacheKeys |-> None]
    /\ got = [c \in Clients |-> None]

\* the executor before its first call
NothingRun ==
    /\ pc = "build"
    /\ built = NoResult
    /\ level = 0
    /\ next_launch = 0
    /\ unit = [t \in Names |-> "none"]
    /\ outcome = [t \in Names |-> NoResult]
    /\ starts = [t \in Names |-> 0]
    /\ failed_tasks = <<>>
    /\ result = NoResult
    /\ invoked = [t \in Names |-> None]
    /\ exited = [t \in Names |-> None]
    /\ runs = 1
    /\ mutex = None
    /\ running_for = [t \in Names |-> 0]

InitWith(max_edges, max_roots) ==
    /\ all_tasks \in Configurations(max_edges)
    /\ task_names \in SeqsUpTo(Names, max_roots)
    /\ args = <<>>
    /\ inputs = "d1"
    /\ EmptyCache
    /\ NothingRun

\* the plan's error replaced by an empty plan instead of being returned
BuildPlanOrEmpty ==
    /\ pc = "build"
    /\ LET resolved == resolve_dependencies(task_names, all_tasks) IN
       IF IsErr(resolved)
       THEN built' = resolved
       ELSE \E dep_order \in IterationOrders(DOMAIN resolved.val),
               deg_order \in IterationOrders(degree_keys(resolved.val)) :
              built' = plan_of(resolved.val, all_tasks, dep_order, deg_order)
    /\ level' = 1
    /\ next_launch' = 1
    /\ pc' = "launch"
    /\ UNCHANGED result
    /\ UNCHANGED <<all_tasks, task_names, args, invoked, exited, runs,
                   mutex, running_for, cache_vars, unit, outcome, starts, failed_tasks>>

(***************************************************************************)
(* execute_tasks_with_dependencies, line 47: build the plan; `?` returns   *)
(* its error.                                                              *)
(***************************************************************************)
BuildPlan ==
    /\ pc = "build"
    /\ LET resolved == resolve_dependencies(task_names, all_tasks) IN
       IF IsErr(resolved)
       THEN built' = resolved
       ELSE \E dep_order \in IterationOrders(DOMAIN resolved.val),
               deg_order \in IterationOrders(degree_keys(resolved.val)) :
              built' = plan_of(resolved.val, all_tasks, dep_order, deg_order)
    /\ IF IsErr(built')
       THEN /\ result' = built'
            /\ pc' = "done"
            /\ UNCHANGED <<level, next_launch>>
       ELSE /\ level' = 1
            /\ next_launch' = 1
            /\ pc' = "launch"
            /\ UNCHANGED result
    /\ UNCHANGED <<all_tasks, task_names, args, invoked, exited, runs,
                   mutex, running_for, cache_vars, unit, outcome, starts, failed_tasks>>

\* the plan that was built
Plan == built.val
Levels == IF IsOk(built) THEN Plan.levels ELSE <<>>

(***************************************************************************)
(* The `for level in &plan.levels` loop.                                   *)
(***************************************************************************)
\* lines 55-80: spawn the unit of the next task of the level; the loop ends
\* after the last one and the function goes on to wait
Launch ==
    /\ pc = "launch"
    /\ level <= Len(Levels)
    /\ LET task_name == Levels[level][next_launch] IN
       IF task_name \notin Plan.tasks
       THEN \* plan.tasks.get(task_name).unwrap() panics
            /\ result' = [tag |-> "Panic"]
            /\ pc' = "done"
            /\ UNCHANGED <<unit, next_launch>>
       ELSE /\ unit' = [unit EXCEPT ![task_name] = "spawned"]
            /\ next_launch' = next_launch + 1
            /\ pc' = IF next_launch = Len(Levels[level]) THEN "join" ELSE "launch"
            /\ UNCHANGED result
    /\ UNCHANGED <<all_tasks, task_names, args, invoked, exited, runs,
                   mutex, running_for, cache_vars, built, level, outcome, starts,
                   failed_tasks>>

\* line 58: the arguments the unit of a task hands to execute_single_task
task_args(task_name) == args

\* execute_single_task, lines 264-319: the shell and payload are determined
\* or the definition is refused; then the child process is created, or its
\* creation fails and the function returns the error
StartProcess(t) ==
    /\ unit[t] = "spawned"
    /\ LET command == script_content(all_tasks[t], task_args(t)) IN
       IF IsErr(command)
       THEN /\ outcome' = [outcome EXCEPT ![t] = command]
            /\ unit' = [unit EXCEPT ![t] = "returned"]
            /\ UNCHANGED <<starts, invoked>>
       ELSE /\ invoked' = [invoked EXCEPT ![t] = Some(command.val)]
            /\ \/ /\ starts' = [starts EXCEPT ![t] = @ + 1]
                  /\ unit' = [unit EXCEPT ![t] = "running"]
                  /\ UNCHANGED outcome
               \/ /\ outcome' = [outcome EXCEPT ![t] = Err(FailedToExecuteMsg)]
                  /\ unit' = [unit EXCEPT ![t] = "returned"]
                  /\ UNCHANGED starts
    /\ UNCHANGED <<all_tasks, task_names, args, exited, runs, mutex,
                   running_for, cache_vars, pc,
                   built, level, next_launch, failed_tasks, result>>

\* the exit statuses with these exit codes
StatusesOf(codes) == {Some(code) : code \in codes}
\* every exit status: an exit code, or none (the child was ended by a signal)
ExitStatuses == StatusesOf(0..MaxExitCode) \cup {None}

\* line 317, cmd.output(): a unit of time passes while the function waits
\* for the child to end
Tick(t) ==
    /\ unit[t] = "running"
    /\ running_for[t] < MaxWait
    /\ running_for' = [running_for EXCEPT ![t] = @ + 1]
    /\ UNCHANGED <<all_tasks, task_names, args, invoked, exited, runs, mutex,
                   cache_vars, pc, built, level, next_launch, unit, outcome,
                   starts, failed_tasks, result>>

\* the status of a child taken to be 0 when it has no exit code
exit_code_or_zero(status) == unwrap_or(status, 0)

\* line 321: output.status.code().unwrap_or(1)
exit_code(status) == unwrap_or(status, 1)

\* execute_single_task, lines 312-321: the child ends with one of these
\* statuses and the function returns its exit code
ProcessExitWith(t, statuses) ==
    /\ unit[t] = "running"
    /\ \E status \in statuses :
         /\ exited' = [exited EXCEPT ![t] = Some(status)]
         /\ outcome' = [outcome EXCEPT ![t] = Ok(exit_code(status))]
    /\ unit' = [unit EXCEPT ![t] = "returned"]
    /\ UNCHANGED <<all_tasks, task_names, args, invoked, runs, mutex,
                   running_for, cache_vars, pc,
                   built, level, next_launch, starts, failed_tasks, result>>

\* the child ends with an exit code of ExitCodes
ProcessExit(t) == ProcessExitWith(t, StatusesOf(ExitCodes))

\* the child ends with any exit status
ProcessExitAny(t) == ProcessExitWith(t, ExitStatuses)

\* the unit recording an execution error with the exit code 1
RecordOutcomeErrorAsOne(t) ==
    /\ unit[t] = "returned"
    /\ failed_tasks' =
         IF IsErr(outcome[t]) THEN Append(failed_tasks, <<t, 1>>)
         ELSE IF outcome[t].val # 0
              THEN Append(failed_tasks, <<t, outcome[t].val>>)
              ELSE failed_tasks
    /\ unit' = [unit EXCEPT ![t] = "complete"]
    /\ UNCHANGED <<all_tasks, task_names, args, invoked, exited, runs,
                   mutex, running_for, cache_vars, pc, built, level, next_launch,
                   outcome, starts, result>>

\* the unit recording non-zero exit codes but not execution errors
RecordOutcomeExitCodesOnly(t) ==
    /\ unit[t] = "returned"
    /\ failed_tasks' =
         IF IsOk(outcome[t]) /\ outcome[t].val # 0
         THEN Append(failed_tasks, <<t, outcome[t].val>>)
         ELSE failed_tasks
    /\ unit' = [unit EXCEPT ![t] = "complete"]
    /\ UNCHANGED <<all_tasks, task_names, args, invoked, exited, runs,
                   mutex, running_for, cache_vars, pc, built, level, next_launch,
                   outcome, starts, result>>

\* lines 63-78: the unit records a failure under the mutex and completes
RecordOutcome(t) ==
    /\ unit[t] = "returned"
    /\ failed_tasks' =
         IF IsErr(outcome[t]) THEN Append(failed_tasks, <<t, -1>>)
         ELSE IF outcome[t].val # 0
              THEN Append(failed_tasks, <<t, outcome[t].val>>)
              ELSE failed_tasks
    /\ unit' = [unit EXCEPT ![t] = "complete"]
    /\ UNCHANGED <<all_tasks, task_names, args, invoked, exited, runs,
                   mutex, running_for, cache_vars, pc, built, level, next_launch,
                   outcome, starts, result>>

\* The steps of lines 63-78 one by one. A unit whose task exited with 0
\* completes without touching failed_tasks.
CompleteOk(t) ==
    /\ unit[t] = "returned"
    /\ outcome[t] = Ok(0)
    /\ unit' = [unit EXCEPT ![t] = "complete"]
    /\ UNCHANGED <<all_tasks, task_names, args, invoked, exited, runs,
                   mutex, running_for, cache_vars, pc, built, level,
                   next_launch, outcome, starts, failed_tasks, result>>

\* lines 66 and 71-74, failed_tasks.lock(): the unit of a failed task takes the
\* lock when no other unit holds it
LockFailedTasks(t) ==
    /\ unit[t] = "returned"
    /\ outcome[t] # Ok(0)
    /\ mutex = None
    /\ mutex' = Some(t)
    /\ unit' = [unit EXCEPT ![t] = "locked"]
    /\ UNCHANGED <<all_tasks, task_names, args, invoked, exited, runs,
                   running_for, cache_vars, pc, built, level, next_launch,
                   outcome, starts, failed_tasks, result>>

\* the entry of a unit written over the entries of the others
PushFailedTaskOverwriting(t) ==
    /\ unit[t] = "locked"
    /\ failed_tasks' =
         IF IsErr(outcome[t]) THEN <<<<t, -1>>>>
         ELSE <<<<t, outcome[t].val>>>>
    /\ mutex' = None
    /\ unit' = [unit EXCEPT ![t] = "complete"]
    /\ UNCHANGED <<all_tasks, task_names, args, invoked, exited, runs,
                   running_for, cache_vars, pc, built, level, next_launch,
                   outcome, starts, result>>

\* lines 66 and 71-74, .push((task_name, code)): the holder of the lock appends
\* its entry; the guard is dropped at the end of the statement and the unit
\* completes
PushFailedTask(t) ==
    /\ unit[t] = "locked"
    /\ failed_tasks' =
         IF IsErr(outcome[t]) THEN Append(failed_tasks, <<t, -1>>)
         ELSE Append(failed_tasks, <<t, outcome[t].val>>)
    /\ mutex' = None
    /\ unit' = [unit EXCEPT ![t] = "complete"]
    /\ UNCHANGED <<all_tasks, task_names, args, invoked, exited, runs,
                   running_for, cache_vars, pc, built, level, next_launch,
                   outcome, starts, result>>

\* the wait ending with the first completed unit
JoinFirstOnly ==
    /\ pc = "join"
    /\ \E t \in Range(Levels[level]) :
         /\ unit[t] = "complete"
         /\ unit' = [unit EXCEPT ![t] = "joined"]
         /\ pc' = "check"
    /\ UNCHANGED <<all_tasks, task_names, args, invoked, exited, runs,
                   mutex, running_for, cache_vars, built, level, next_launch, outcome,
                   starts, failed_tasks, result>>

\* the wait ending as soon as a completed unit has recorded a failure
JoinUntilFailure ==
    /\ pc = "join"
    /\ \E t \in Range(Levels[level]) :
         /\ unit[t] = "complete"
         /\ unit' = [unit EXCEPT ![t] = "joined"]
         /\ pc' = IF \/ failed_tasks # <<>>
                     \/ \A u \in Range(Levels[level]) \ {t} : unit[u] = "joined"
                  THEN "check" ELSE "join"
    /\ UNCHANGED <<all_tasks, task_names, args, invoked, exited, runs,
                   mutex, running_for, cache_vars, built, level, next_launch, outcome,
                   starts, failed_tasks, result>>

\* the wait not ending when it has joined the last unit of the level
JoinNextNeverEmpty ==
    /\ pc = "join"
    /\ \E t \in Range(Levels[level]) :
         /\ unit[t] = "complete"
         /\ unit' = [unit EXCEPT ![t] = "joined"]
         /\ pc' = IF \A u \in Range(Levels[level]) : unit[u] = "joined"
                  THEN "check" ELSE "join"
    /\ UNCHANGED <<all_tasks, task_names, args, invoked, exited, runs,
                   mutex, running_for, cache_vars, built, level, next_launch, outcome,
                   starts, failed_tasks, result>>

\* lines 83-90: join_next yields a completed unit; when the set is empty the
\* loop ends
JoinNext ==
    /\ pc = "join"
    /\ \E t \in Range(Levels[level]) :
         /\ unit[t] = "complete"
         /\ unit' = [unit EXCEPT ![t] = "joined"]
         /\ pc' = IF \A u \in Range(Levels[level]) \ {t} : unit[u] = "joined"
                  THEN "check" ELSE "join"
    /\ UNCHANGED <<all_tasks, task_names, args, invoked, exited, runs,
                   mutex, running_for, cache_vars, built, level, next_launch, outcome,
                   starts, failed_tasks, result>>

\* the names of the failed list, in order
failed_names(failed) == [i \in 1..Len(failed) |-> failed[i][1]]

\* the level check going on to the next level whatever the level recorded
CheckLevelIgnoringFailures ==
    /\ pc = "check"
    /\ level' = level + 1
    /\ next_launch' = 1
    /\ failed_tasks' = <<>>
    /\ pc' = "launch"
    /\ UNCHANGED <<all_tasks, task_names, args, invoked, exited, runs,
                   mutex, running_for, cache_vars, built, unit, outcome, starts, result>>

\* the level check launching the level again when it recorded a failure
CheckLevelRetrying ==
    /\ pc = "check"
    /\ IF failed_tasks # <<>>
       THEN /\ next_launch' = 1
            /\ failed_tasks' = <<>>
            /\ pc' = "launch"
            /\ UNCHANGED <<level, result>>
       ELSE /\ level' = level + 1
            /\ next_launch' = 1
            /\ failed_tasks' = <<>>
            /\ pc' = "launch"
            /\ UNCHANGED result
    /\ UNCHANGED <<all_tasks, task_names, args, invoked, exited, runs,
                   mutex, running_for, cache_vars, built, unit, outcome, starts>>

\* lines 92-100: fail if the level recorded a failure, else go to the next level
CheckLevel ==
    /\ pc = "check"
    /\ IF failed_tasks # <<>>
       THEN /\ result' = Err(TasksFailedMsg(failed_names(failed_tasks)))
            /\ pc' = "done"
            /\ UNCHANGED <<level, next_launch, failed_tasks>>
       ELSE /\ level' = level + 1
            /\ next_launch' = 1
            /\ failed_tasks' = <<>>
            /\ pc' = "launch"
            /\ UNCHANGED result
    /\ UNCHANGED <<all_tasks, task_names, args, invoked, exited, runs,
                   mutex, running_for, cache_vars, built, unit, outcome, starts>>

\* Ok(0) returned from inside the level loop, after the first level
ReturnOkAfterFirstLevel ==
    /\ pc = "launch"
    /\ level > 1
    /\ result' = Ok(0)
    /\ pc' = "done"
    /\ UNCHANGED <<all_tasks, task_names, args, invoked, exited, runs,
                   mutex, running_for, cache_vars, built, level, next_launch, unit,
                   outcome, starts, failed_tasks>>

\* line 103: every level is done
ReturnOk ==
    /\ pc = "launch"
    /\ level > Len(Levels)
    /\ result' = Ok(0)
    /\ pc' = "done"
    /\ UNCHANGED <<all_tasks, task_names, args, invoked, exited, runs,
                   mutex, running_for, cache_vars, built, level, next_launch, unit,
                   outcome, starts, failed_tasks>>

Next ==
    \/ BuildPlan
    \/ Launch
    \/ \E t \in Names : StartProcess(t)
    \/ \E t \in Names : ProcessExit(t)
    \/ \E t \in Names : RecordOutcome(t)
    \/ JoinNext
    \/ CheckLevel
    \/ ReturnOk

\* A whole run: every configuration and request within MaxRunEdges, MaxRunRoots.
Init == InitWith(MaxRunEdges, MaxRunRoots)
Spec == Init /\ [][Next]_vars

\* A whole run under the scheduling of the code, once the plan is built:
\* while a step of the level loop can be taken, one is taken. The function
\* runs on while it has a step to take (it is awaited by its caller), the
\* runtime runs the units it spawned (lines 62-79), and a child process that
\* was started terminates (cmd.output() of line 317 then returns). Building
\* the plan (line 47) is a call without an await: it needs no scheduling.
RunStep ==
    \/ Launch
    \/ \E t \in Names : StartProcess(t)
    \/ \E t \in Names : ProcessExit(t)
    \/ \E t \in Names : RecordOutcome(t)
    \/ JoinNext
    \/ CheckLevel
    \/ ReturnOk
Fairness == WF_vars(RunStep)
InitLive == InitWith(MaxLiveEdges, MaxLiveRoots)
SpecLive == InitLive /\ [][Next]_vars /\ Fairness

\* Planning alone: every configuration and request within MaxEdges, MaxRoots.
InitPlan == InitWith(MaxEdges, MaxRoots)
SpecPlan == InitPlan /\ [][BuildPlan]_vars

\* Runs over task definitions: tasks with and without command and script,
\* and user arguments.
InitDefinitions ==
    /\ all_tasks \in ConfigurationsOf(DefNames, AnyDefinitions, MaxDefEdges)
    /\ task_names \in SeqsUpTo(DefNames, MaxDefRoots)
    /\ args \in SeqsUpTo(ArgWords, MaxDefArgs)
    /\ inputs = "d1"
    /\ EmptyCache
    /\ NothingRun
SpecDefinitions == InitDefinitions /\ [][Next]_vars

\* Runs of a single task: every definition, user arguments, and every exit
\* status of the child.
InitSingleTask ==
    /\ all_tasks \in ConfigurationsOver({"a"}, {}, AnyShellDefinitions, 0)
    /\ task_names = <<"a">>
    /\ args \in SeqsUpTo(ArgWords, MaxArgs)
    /\ inputs = "d1"
    /\ EmptyCache
    /\ NothingRun
NextSingleTask ==
    \/ BuildPlan
    \/ Launch
    \/ \E t \in Names : StartProcess(t)
    \/ \E t \in Names : ProcessExitAny(t)
    \/ \E t \in Names : RecordOutcome(t)
    \/ JoinNext
    \/ CheckLevel
    \/ ReturnOk
SpecSingleTask == InitSingleTask /\ [][NextSingleTask]_vars

\* Runs with the steps of a unit on failed_tasks taken one by one.
NextMutex ==
    \/ BuildPlan
    \/ Launch
    \/ \E t \in Names : StartProcess(t)
    \/ \E t \in Names : ProcessExit(t)
    \/ \E t \in Names : CompleteOk(t)
    \/ \E t \in Names : LockFailedTasks(t)
    \/ \E t \in Names : PushFailedTask(t)
    \/ JoinNext
    \/ CheckLevel
    \/ ReturnOk
SpecMutex == Init /\ [][NextMutex]_vars

\* Runs of tasks with and without a timeout, in which time passes while a
\* child process runs.
InitTimeout ==
    /\ all_tasks \in ConfigurationsOf(DefNames, TimeoutDefinitions, MaxDefEdges)
    /\ task_names \in SeqsUpTo(DefNames, MaxDefRoots)
    /\ args = <<>>
    /\ inputs = "d1"
    /\ EmptyCache
    /\ NothingRun
NextTimeout ==
    \/ BuildPlan
    \/ Launch
    \/ \E t \in Names : StartProcess(t)
    \/ \E t \in Names : Tick(t)
    \/ \E t \in Names : ProcessExit(t)
    \/ \E t \in Names : RecordOutcome(t)
    \/ JoinNext
    \/ CheckLevel
    \/ ReturnOk
SpecTimeout == InitTimeout /\ [][NextTimeout]_vars

(***************************************************************************)
(* The calls of the cache store by its clients.                            *)
(***************************************************************************)
\* what the calls of the cache store leave alone
run_vars == <<all_tasks, task_names, pc, built, level, next_launch, unit,
              outcome, starts, failed_tasks, result, args, invoked, exited,
              runs, mutex, running_for>>

\* put, first step: the meta file of the new entry is written to its tmp
\* sibling
SaveResultWrite(c, key, task_name, code) ==
    /\ cache_op[c] = None
    /\ clock < MaxClock
    /\ LET entry == CacheEntry(code, clock + 1, task_name, inputs) IN
       /\ cache_files' = write_file(cache_files, tmp_path(key, c),
                                    serialize(entry))
       /\ cache_op' = [cache_op EXCEPT ![c] =
                          Some([key |-> key, entry |-> entry, written |-> TRUE])]
    /\ clock' = clock + 1
    /\ UNCHANGED <<run_vars, inputs, last_put, got>>

\* put, first step, when the tmp sibling is not written at once: the file is
\* created and holds the beginning of the entry
SaveResultCreate(c, key, task_name, code) ==
    /\ cache_op[c] = None
    /\ clock < MaxClock
    /\ LET entry == CacheEntry(code, clock + 1, task_name, inputs) IN
       /\ cache_files' = write_file(cache_files, tmp_path(key, c),
                                    SubSeq(serialize(entry), 1, 2))
       /\ cache_op' = [cache_op EXCEPT ![c] =
                          Some([key |-> key, entry |-> entry, written |-> FALSE])]
    /\ clock' = clock + 1
    /\ UNCHANGED <<run_vars, inputs, last_put, got>>

\* the rest of the entry is written to the tmp sibling
SaveResultComplete(c) ==
    /\ cache_op[c] # None
    /\ ~cache_op[c].val.written
    /\ cache_files' = write_file(cache_files, tmp_path(cache_op[c].val.key, c),
                                 serialize(cache_op[c].val.entry))
    /\ cache_op' = [cache_op EXCEPT ![c] = Some([@.val EXCEPT !.written = TRUE])]
    /\ UNCHANGED <<run_vars, inputs, clock, last_put, got>>

\* put, second step: the tmp file is renamed into place and put returns ok;
\* put fails when the tmp file is no longer there
SaveResultRename(c) ==
    /\ cache_op[c] # None
    /\ cache_op[c].val.written
    /\ LET key == cache_op[c].val.key IN
       IF tmp_path(key, c) \in DOMAIN cache_files
       THEN /\ cache_files' = rename(cache_files, tmp_path(key, c),
                                     meta_path(key))
            /\ last_put' = [last_put EXCEPT ![key] = Some(cache_op[c].val.entry)]
       ELSE UNCHANGED <<cache_files, last_put>>
    /\ cache_op' = [cache_op EXCEPT ![c] = None]
    /\ UNCHANGED <<run_vars, inputs, clock, got>>

\* put fails while it writes the tmp file and leaves it incomplete
SaveResultFails(c, key, task_name, code) ==
    /\ cache_op[c] = None
    /\ clock < MaxClock
    /\ LET entry == CacheEntry(code, clock + 1, task_name, inputs) IN
       cache_files' = write_file(cache_files, tmp_path(key, c),
                                 SubSeq(serialize(entry), 1, 2))
    /\ clock' = clock + 1
    /\ UNCHANGED <<run_vars, inputs, cache_op, last_put, got>>

\* get
GetCachedResult(c, key) ==
    /\ cache_op[c] = None
    /\ got' = [got EXCEPT ![c] =
                  Some([key |-> key,
                        entry |-> get_cached_result(key, cache_files, inputs)])]
    /\ UNCHANGED <<run_vars, cache_files, inputs, clock, cache_op, last_put>>

\* an input file is modified
ModifyInput ==
    /\ \E digest \in InputDigests \ {inputs} : inputs' = digest
    /\ UNCHANGED <<run_vars, cache_files, clock, cache_op, last_put, got>>

\* One client of an empty cache putting and getting entries of the tasks.
InitCache ==
    /\ all_tasks \in ConfigurationsOver(DefNames, {}, PlainDefinitions, 0)
    /\ task_names = <<>>
    /\ args = <<>>
    /\ inputs \in InputDigests
    /\ EmptyCache
    /\ NothingRun
NextCache ==
    \/ \E key \in CacheKeys, t \in DOMAIN all_tasks, code \in ExitCodes :
          SaveResultWrite(1, key, t, code)
    \/ SaveResultRename(1)
    \/ \E key \in CacheKeys, t \in DOMAIN all_tasks, code \in ExitCodes :
          SaveResultFails(1, key, t, code)
    \/ \E key \in CacheKeys : GetCachedResult(1, key)
    \/ ModifyInput
SpecCache == InitCache /\ [][NextCache]_vars

\* Two clients of an empty cache putting and getting entries of one task
\* at the same time, a put writing its tmp sibling at once or in two steps.
InitConcurrentCache ==
    /\ all_tasks \in ConfigurationsOver({"a"}, {}, PlainDefinitions, 0)
    /\ task_names = <<>>
    /\ args = <<>>
    /\ inputs = "d1"
    /\ EmptyCache
    /\ NothingRun
NextConcurrentCache ==
    \E c \in Clients :
        \/ \E key \in CacheKeys, t \in DOMAIN all_tasks, code \in ExitCodes :
              SaveResultWrite(c, key, t, code)
        \/ \E key \in CacheKeys, t \in DOMAIN all_tasks, code \in ExitCodes :
              SaveResultCreate(c, key, t, code)
        \/ SaveResultComplete(c)
        \/ SaveResultRename(c)
        \/ \E key \in CacheKeys, t \in DOMAIN all_tasks, code \in ExitCodes :
              SaveResultFails(c, key, t, code)
        \/ \E key \in CacheKeys : GetCachedResult(c, key)
SpecConcurrentCache == InitConcurrentCache /\ [][NextConcurrentCache]_vars

(***************************************************************************)
(* Repeated calls of execute_task on one executor, over a cache that may   *)
(* hold an entry of the task from an earlier invocation.                   *)
(***************************************************************************)
\* the caller calls execute_task again after a call that returned Ok(0)
Rerun ==
    /\ pc = "done"
    /\ result = Ok(0)
    /\ runs < MaxRuns
    /\ runs' = runs + 1
    /\ pc' = "build"
    /\ built' = NoResult
    /\ level' = 0
    /\ next_launch' = 0
    /\ unit' = [t \in Names |-> "none"]
    /\ outcome' = [t \in Names |-> NoResult]
    /\ failed_tasks' = <<>>
    /\ result' = NoResult
    /\ UNCHANGED <<all_tasks, task_names, args, starts, invoked, exited,
                   mutex, running_for, cache_vars>>

\* a cache that holds this entry under this key
StoredCache(key, entry) ==
    /\ cache_files = write_file(NoFiles, meta_path(key), serialize(entry))
    /\ clock = entry.timestamp
    /\ cache_op = [c \in Clients |-> None]
    /\ last_put = [k \in CacheKeys |-> IF k = key THEN Some(entry) ELSE None]
    /\ got = [c \in Clients |-> None]

InitCachedRuns ==
    /\ all_tasks \in ConfigurationsOver({"a"}, {}, CacheDefinitions, 0)
    /\ task_names = <<"a">>
    /\ args = <<>>
    /\ inputs \in InputDigests
    /\ \/ EmptyCache
       \/ \E digest \in InputDigests :
             StoredCache(generate_cache_key("a"), CacheEntry(0, 1, "a", digest))
    /\ NothingRun
NextCachedRuns ==
    \/ BuildPlan
    \/ Launch
    \/ \E t \in Names : StartProcess(t)
    \/ \E t \in Names : ProcessExit(t)
    \/ \E t \in Names : RecordOutcome(t)
    \/ JoinNext
    \/ CheckLevel
    \/ ReturnOk
    \/ Rerun
SpecCachedRuns == InitCachedRuns /\ [][NextCachedRuns]_vars

(***************************************************************************)
(* The dependency relation of the configuration, for stating properties.   *)
(***************************************************************************)
\* the names t lists as dependencies (none if t is no task)
DependenciesOf(t) ==
    IF t \in DOMAIN all_tasks THEN Range(all_tasks[t].dependencies) ELSE {}

\* the names reachable from the set S along dependencies (S included)
RECURSIVE ReachableFrom(_)
ReachableFrom(S) ==
    LET more == S \cup UNION {DependenciesOf(t) : t \in S}
    IN IF more = S THEN S ELSE ReachableFrom(more)

\* t lies on a dependency cycle
OnCycle(t) == t \in ReachableFrom(DependenciesOf(t))

Roots == Range(task_names)
AllRootsExist == Roots \subseteq DOMAIN all_tasks
PlanReturned == IsOk(built)
PlanFailed == IsErr(built)

\* the names in the levels of the plan, and the levels that hold a name
LevelNames == UNION {Range(Levels[i]) : i \in 1..Len(Levels)}
LevelsOf(t) == {i \in 1..Len(Levels) : t \in Range(Levels[i])}

(***************************************************************************)
(* Properties of the plan (specification SpecPlan).                        *)
(***************************************************************************)
\* C1: in every plan returned, every dependency of a task that is in the
\* plan is held by a level of strictly smaller index than the task's level.
C1_DependencyLevelBelow ==
    PlanReturned =>
        \A i \in 1..Len(Levels) : \A t \in Range(Levels[i]) :
            \A d \in DependenciesOf(t) \cap Plan.tasks :
                /\ LevelsOf(d) # {}
                /\ \A j \in LevelsOf(d) : j < i

\* a plan of three levels in which a task has dependencies in two levels
C1_Witness ==
    /\ PlanReturned
    /\ Len(Levels) = 3
    /\ \E t \in Range(Levels[3]) :
         /\ DependenciesOf(t) \cap Range(Levels[1]) # {}
         /\ DependenciesOf(t) \cap Range(Levels[2]) # {}

\* C2: in every plan returned, the names in the levels are the keys of
\* plan.tasks and are the transitive closure of the requested roots over
\* dependencies; a configured task not reachable from a root is in neither.
C2_PlanIsClosureOfRoots ==
    PlanReturned =>
        /\ LevelNames = Plan.tasks
        /\ Plan.tasks = ReachableFrom(Roots)
        /\ \A t \in (DOMAIN all_tasks) \ ReachableFrom(Roots) :
             t \notin LevelNames /\ t \notin Plan.tasks

\* a plan of a root and its dependency that leaves a configured task out
C2_Witness ==
    /\ PlanReturned
    /\ Cardinality(Plan.tasks) = 2
    /\ Plan.tasks # Roots
    /\ (DOMAIN all_tasks) \ Plan.tasks # {}

\* C3: in every plan returned no name appears in two levels, nor twice in
\* one level.
C3_NoTaskTwice ==
    PlanReturned =>
        \A i, j \in 1..Len(Levels) :
            \A k \in 1..Len(Levels[i]) : \A l \in 1..Len(Levels[j]) :
                Levels[i][k] = Levels[j][l] => (i = j /\ k = l)

\* two requested roots, one a dependency of the other, and a third task
\* that both depend on
C3_Witness ==
    /\ PlanReturned
    /\ Len(task_names) = 2
    /\ task_names[1] \in DependenciesOf(task_names[2])
    /\ \E d \in Names \ Roots :
         d \in DependenciesOf(task_names[1]) \cap DependenciesOf(task_names[2])

\* str::to_lowercase on the words of the messages (task names are lower case)
to_lowercase(w) ==
    CASE w = "Circular" -> "circular"
      [] w = "Cyclic" -> "cyclic"
      [] w = "Task" -> "task"
      [] w = "Tasks" -> "tasks"
      [] w = "Dependency" -> "dependency"
      [] w = "Failed" -> "failed"
      [] OTHER -> w

ContainsCircular(msg) == \E i \in 1..Len(msg) : to_lowercase(msg[i]) = "circular"
ContainsNotFound(msg) == ContainsWords(msg, <<"not", "found">>)

\* a dependency cycle can be reached from a requested root
CycleReachable == \E t \in ReachableFrom(Roots) : OnCycle(t)
\* every name reachable from the requested roots is a task
AllReachableExist == ReachableFrom(Roots) \subseteq DOMAIN all_tasks

\* msg is "Circular dependency detected involving task t", t on a cycle
NamesCycleTask(msg) ==
    \E t \in Names :
        /\ msg = CircularInvolvingMsg(t)
        /\ ContainsWords(msg, <<"Circular", "dependency">>)
        /\ OnCycle(t)

\* msg is "Dependency d of task t not found" for a task t reachable from the
\* roots and a name d that t lists and that is no task
NamesMissingDependency(msg) ==
    \E t \in ReachableFrom(Roots) \cap DOMAIN all_tasks :
        \E d \in DependenciesOf(t) \ DOMAIN all_tasks :
            /\ msg = DependencyNotFoundMsg(d, t)
            /\ ContainsNotFound(msg)
            /\ {d, t} \subseteq Range(msg)

\* the tasks the traversal entered: none when the validation of the roots
\* fails, else those on its stack or visited when it ended
Entered ==
    IF first_missing(task_names, 1, all_tasks) # 0 THEN {}
    ELSE LET st == collect_roots(task_names, 1, all_tasks,
                       [deps |-> <<>>, visited |-> {}, stack |-> {},
                        err |-> NoResult])
         IN st.stack \cup st.visited

\* C4: as claimed: if a cycle is reachable from a requested root along
\* existing tasks (every requested root being a task), the error contains
\* 'Circular dependency' and names a task that lies on a cycle, and no plan
\* is returned.
C4_Original ==
    (built # NoResult /\ AllRootsExist /\ CycleReachable) =>
        (PlanFailed /\ NamesCycleTask(built.msg))

\* C4, amended: if every requested root exists and a cycle is reachable from
\* a root, no plan is returned and the error is either the 'Circular
\* dependency' error naming a task on a cycle or the 'not found' error of a
\* missing dependency of a reachable task; it is the former whenever every
\* name reachable from the roots is a task.
C4_CycleReported ==
    (built # NoResult /\ AllRootsExist /\ CycleReachable) =>
        /\ PlanFailed
        /\ NamesCycleTask(built.msg) \/ NamesMissingDependency(built.msg)
        /\ AllReachableExist => NamesCycleTask(built.msg)

\* the error names a task that is no requested root and lists another task
C4_Witness ==
    /\ PlanFailed
    /\ \E t \in Names \ Roots :
         /\ built.msg = CircularInvolvingMsg(t)
         /\ t \notin DependenciesOf(t)

\* C5: as claimed: whenever the dependency relation of the configuration has
\* a cycle, plan construction fails with a message containing "circular"
\* (stated here for requests of at least one root in which every name
\* reachable from the roots is a task, so that no other error can occur).
C5_Original ==
    (/\ built # NoResult
     /\ task_names # <<>> /\ AllReachableExist
     /\ \E t \in DOMAIN all_tasks : OnCycle(t)) =>
        (PlanFailed /\ ContainsCircular(built.msg))

\* C5, amended: when every name reachable from the requested roots is a task
\* and a cycle is reachable from a root, plan construction fails with a
\* message containing "circular" (case-insensitive); and it fails with such
\* a message only if a cycle is reachable from the requested roots.
C5_ReachableCycleFails ==
    built # NoResult =>
        /\ (AllReachableExist /\ CycleReachable) =>
              (PlanFailed /\ ContainsCircular(built.msg))
        /\ (PlanFailed /\ ContainsCircular(built.msg)) =>
              (AllRootsExist /\ CycleReachable)

\* the cycle of the test: two tasks depending on each other, one requested
C5_Witness ==
    /\ PlanFailed
    /\ ContainsCircular(built.msg)
    /\ Len(task_names) = 1
    /\ \E t \in Names \ Roots :
         /\ DependenciesOf(task_names[1]) = {t}
         /\ DependenciesOf(t) = Roots

\* C6: if a requested name is no task, the error is "Task r not found" for
\* the first such name r, whatever the other roots lead to.
C6_UnknownRootFirst ==
    (built # NoResult /\ ~AllRootsExist) =>
        \E i \in 1..Len(task_names) :
            /\ task_names[i] \notin DOMAIN all_tasks
            /\ \A j \in 1..(i - 1) : task_names[j] \in DOMAIN all_tasks
            /\ built = Err(TaskNotFoundMsg(task_names[i]))
            /\ ContainsNotFound(built.msg)
            /\ task_names[i] \in Range(built.msg)

\* the second root is unknown and the first one lies on a cycle
C6_Witness ==
    /\ Len(task_names) = 2
    /\ OnCycle(task_names[1])
    /\ built = Err(TaskNotFoundMsg(task_names[2]))

\* C7: as claimed: if a task the traversal entered lists a name that is no
\* task, the error names that kind of dependency and the task listing it and
\* contains 'not found'; and no plan has a task with a dependency outside it.
C7_Original ==
    /\ (built # NoResult
        /\ \E t \in Entered : ~(DependenciesOf(t) \subseteq DOMAIN all_tasks))
       => (PlanFailed /\ NamesMissingDependency(built.msg))
    /\ PlanReturned =>
         \A t \in Plan.tasks : DependenciesOf(t) \subseteq Plan.tasks

\* C7, amended: if every requested root exists and a task reachable from a
\* root lists a name that is no task, no plan is returned and the error is
\* the 'not found' error naming a missing dependency and the task listing
\* it, or the 'Circular dependency' error when the traversal closes a cycle
\* first; it is the former whenever no cycle is reachable from the roots.
\* No plan has a task with a dependency outside the plan.
C7_MissingDependencyFails ==
    /\ (built # NoResult /\ AllRootsExist /\ ~AllReachableExist) =>
         /\ PlanFailed
         /\ NamesMissingDependency(built.msg) \/ NamesCycleTask(built.msg)
         /\ ~CycleReachable => NamesMissingDependency(built.msg)
    /\ PlanReturned =>
         \A t \in Plan.tasks : DependenciesOf(t) \subseteq Plan.tasks

\* the missing name is the second dependency of a task that is no root
C7_Witness ==
    /\ PlanFailed
    /\ \E t \in (DOMAIN all_tasks) \ Roots :
         /\ Len(all_tasks[t].dependencies) = 2
         /\ built.msg = DependencyNotFoundMsg(all_tasks[t].dependencies[2], t)

(***************************************************************************)
(* Properties of the execution (specification Spec).                       *)
(***************************************************************************)
\* the unit of t was spawned; the run of t ended; it ended well or badly
Launched(t) == unit[t] # "none"
Ended(t) == outcome[t] # NoResult
Succeeded(t) == outcome[t] = Ok(0)
Failed(t) == IsErr(outcome[t]) \/ (IsOk(outcome[t]) /\ outcome[t].val # 0)
\* the unit of t reported its outcome (its future completed)
Reported(t) == unit[t] \in {"complete", "joined"}

\* C8: a task is launched, and its process started, only when every one of
\* its dependencies has ended with exit code 0; a task with a dependency
\* that failed or errored is never started.
C8_StartsAfterDependenciesSucceed ==
    \A t \in Names :
        (Launched(t) \/ starts[t] > 0) =>
            \A d \in DependenciesOf(t) : Succeeded(d) /\ Reported(d)

\* the process of a task with a dependency is running
C8_Witness ==
    \E t \in Names :
        /\ unit[t] = "running"
        /\ starts[t] = 1
        /\ DependenciesOf(t) # {}

\* C9: a unit of a level is launched only when every unit of every earlier
\* level has reported its outcome; levels are started in index order.
C9_LevelBarrier ==
    /\ \A i, j \in 1..Len(Levels) :
         i < j =>
            \A u \in Range(Levels[i]) : \A t \in Range(Levels[j]) :
                Launched(t) => Reported(u)
    /\ \A j \in 1..Len(Levels) :
         (\E t \in Range(Levels[j]) : Launched(t)) => j <= level

\* a task of the second level runs after a first level of two tasks
C9_Witness ==
    /\ PlanReturned
    /\ Len(Levels) >= 2
    /\ Len(Levels[1]) = 2
    /\ \E t \in Range(Levels[2]) : unit[t] = "running"

\* the names listed by a 'Tasks failed' message
TasksFailedNames(msg) == SubSeq(msg, 3, Len(msg))
IsTasksFailed(r) ==
    /\ IsErr(r)
    /\ Len(r.msg) >= 2
    /\ SubSeq(r.msg, 1, 2) = <<"Tasks", "failed:">>

\* C10: once a task of a level has ended with an outcome other than 0, no
\* task of a later level is ever launched or started, and the run returns
\* the 'Tasks failed' error naming exactly the tasks of that level whose
\* outcome was not 0.
C10_FailedLevelEndsRun ==
    /\ \A t \in Names :
         Failed(t) =>
            /\ level \in 1..Len(Levels)
            /\ t \in Range(Levels[level])
            /\ \A j \in (level + 1)..Len(Levels) : \A u \in Range(Levels[j]) :
                 ~Launched(u) /\ starts[u] = 0
    /\ (pc = "done" /\ \E t \in Names : Failed(t)) =>
         /\ IsTasksFailed(result)
         /\ Range(TasksFailedNames(result.msg)) =
               {t \in Range(Levels[level]) : Failed(t)}
         /\ Len(TasksFailedNames(result.msg)) =
               Cardinality({t \in Range(Levels[level]) : Failed(t)})

\* the run ended naming two failed tasks of a level, one by its exit code
\* and one by an execution error, with a later level left unstarted
C10_Witness ==
    /\ pc = "done"
    /\ IsTasksFailed(result)
    /\ Len(TasksFailedNames(result.msg)) = 2
    /\ \E t \in Names : IsErr(outcome[t])
    /\ \E t \in Names : IsOk(outcome[t]) /\ outcome[t].val # 0
    /\ level < Len(Levels)

\* C11: when the run has returned, every unit that was launched has reached
\* its own outcome and has been joined, whatever its siblings did: a failure
\* in a level cancels no unit of that level.
C11_LaunchedUnitsEndBeforeReturn ==
    (pc = "done" /\ PlanReturned) =>
        \A t \in Names :
            Launched(t) => (unit[t] = "joined" /\ Ended(t))

\* the run ended in a level of two tasks: one failed, and its sibling's
\* process was started all the same and exited with 0
C11_Witness ==
    /\ pc = "done"
    /\ IsTasksFailed(result)
    /\ Len(Levels[level]) = 2
    /\ \E t, u \in Range(Levels[level]) :
         /\ Failed(t)
         /\ Succeeded(u)
         /\ starts[u] = 1
         /\ unit[u] = "joined"

\* every task of the plan was run once and exited with 0
AllPlanTasksSucceeded ==
    \A t \in Plan.tasks : starts[t] = 1 /\ Succeeded(t) /\ Reported(t)

\* C12: the run returns Ok(0) exactly when the plan was built and every
\* task of the plan was run and ended with exit code 0; it returns no other
\* Ok value.
C12_OkZeroIffAllSucceeded ==
    /\ pc = "done" =>
         (result = Ok(0) <=> (PlanReturned /\ AllPlanTasksSucceeded))
    /\ IsOk(result) => result.val = 0
    /\ pc # "done" => result = NoResult

\* a run of three tasks in more than one level returned Ok(0)
C12_Witness ==
    /\ pc = "done"
    /\ result = Ok(0)
    /\ Cardinality(Plan.tasks) = 3
    /\ Len(Levels) >= 2

\* C13: when the construction of the plan fails, the run returns that
\* error, and at no point of the run is a unit launched or a task process
\* started.
C13_PlanErrorAbortsBeforeAnyTask ==
    PlanFailed =>
        /\ pc = "done"
        /\ result = built
        /\ \A t \in Names :
             ~Launched(t) /\ starts[t] = 0 /\ ~Ended(t)

\* the plan failed on the second root, after a first root that could have
\* been run
C13_Witness ==
    /\ PlanFailed
    /\ result = built
    /\ Len(task_names) = 2
    /\ task_names[1] \in DOMAIN all_tasks
    /\ DependenciesOf(task_names[1]) = {}
    /\ task_names[2] # task_names[1]

(***************************************************************************)
(* Properties of execute_single_task (specifications SpecDefinitions and   *)
(* SpecSingleTask).                                                        *)
(***************************************************************************)
HasCommand(t) == all_tasks[t].command # None
HasScript(t) == all_tasks[t].script # None
\* t defines both command and script, or neither
InvalidDefinition(t) == HasCommand(t) <=> HasScript(t)
\* execute_single_task has returned for t
Returned(t) == unit[t] \in {"returned", "complete", "joined"}

\* C14: a task that defines both command and script, or neither, gets the
\* configuration error of its case when it is run and no child process is
\* ever created for it; the plan is built whatever the definitions are, and
\* such a task is run only after its dependencies have been run and have
\* ended with 0.
C14_InvalidDefinitionFailsAtRunTime ==
    /\ \A t \in DOMAIN all_tasks :
         InvalidDefinition(t) =>
            /\ starts[t] = 0 /\ invoked[t] = None /\ exited[t] = None
            /\ Returned(t) =>
                 outcome[t] = Err(IF HasCommand(t) THEN BothDefinedMsg
                                  ELSE NeitherDefinedMsg)
            /\ Launched(t) =>
                 /\ PlanReturned
                 /\ \A d \in DependenciesOf(t) :
                      starts[d] = 1 /\ Succeeded(d) /\ Reported(d)
    /\ (built # NoResult /\ AllRootsExist /\ AllReachableExist
          /\ ~CycleReachable) =>
         PlanReturned /\ Plan.tasks = ReachableFrom(Roots)

\* a task with both command and script was refused after its dependency
\* had been run
C14_Witness ==
    \E t \in DOMAIN all_tasks :
        /\ HasCommand(t) /\ HasScript(t)
        /\ outcome[t] = Err(BothDefinedMsg)
        /\ \E d \in DependenciesOf(t) : starts[d] = 1 /\ Succeeded(d)

\* C15: the shell of the Command built for a task is the task's shell, or
\* sh when it has none; its payload is, for a task with a command, the
\* command, then for each user argument in order a single space and the
\* argument; for a task with a script, the script alone.
C15_ShellAndPayload ==
    \A t \in DOMAIN all_tasks :
        invoked[t] # None =>
            LET payload == invoked[t].val.script_content IN
            /\ invoked[t].val.shell =
                 (IF all_tasks[t].shell = None THEN "sh"
                  ELSE all_tasks[t].shell.val)
            /\ HasCommand(t) =>
                 /\ Len(payload) = 1 + 2 * Len(args)
                 /\ payload[1] = all_tasks[t].command.val
                 /\ \A i \in 1..Len(args) :
                      payload[2 * i] = " " /\ payload[2 * i + 1] = args[i]
            /\ HasScript(t) => payload = <<all_tasks[t].script.val>>

\* a command was run by the task's own shell with two different arguments
C15_Witness ==
    /\ invoked["a"] # None
    /\ HasCommand("a")
    /\ all_tasks["a"].shell # None
    /\ Len(args) = 2
    /\ args[1] # args[2]
    /\ starts["a"] = 1

IsCommandWith(payload, command, arguments) ==
    /\ Len(payload) = 1 + 2 * Len(arguments)
    /\ payload[1] = command
    /\ \A i \in 1..Len(arguments) :
         payload[2 * i] = " " /\ payload[2 * i + 1] = arguments[i]

\* C16: the user arguments are appended to the command of a requested root
\* only; the command of a task that is run only as a dependency is run
\* without user arguments.
C16_ArgsOnlyToRoots ==
    \A t \in DOMAIN all_tasks :
        (invoked[t] # None /\ HasCommand(t)) =>
            LET payload == invoked[t].val.script_content IN
            IF t \in Roots
            THEN IsCommandWith(payload, all_tasks[t].command.val, args)
            ELSE IsCommandWith(payload, all_tasks[t].command.val, <<>>)

\* the exit codes a result of execute_tasks_with_dependencies carries: the
\* value of an Ok; an Err holds a message and no exit code
ExitCodesCarried(r) == IF IsOk(r) THEN {r.val} ELSE {}
\* the tasks that failed in the run
FailedTasks == {t \in Names : Failed(t)}

\* C18: when the run has returned and exactly one task failed, by a
\* non-zero exit code, the result carries that exit code; when more than
\* one failed, the result is the 'Tasks failed' error naming them.
C18_SingleFailureCarriesExitCode ==
    (pc = "done" /\ PlanReturned) =>
        /\ Cardinality(FailedTasks) = 1 =>
             \A t \in FailedTasks :
                 IsOk(outcome[t]) => outcome[t].val \in ExitCodesCarried(result)
        /\ Cardinality(FailedTasks) > 1 =>
             /\ IsTasksFailed(result)
             /\ Range(TasksFailedNames(result.msg)) = FailedTasks

(***************************************************************************)
(* Properties of the cache (specifications SpecCachedRuns and SpecCache).  *)
(***************************************************************************)
CacheEnabled(t) == all_tasks[t].cache = Some(TRUE)
\* the cache holds an entry of t that records the current digest of the inputs
CacheHit(t) ==
    get_cached_result(generate_cache_key(t), cache_files, inputs) # None

\* C19: a task with cache = true whose key has an entry recording the
\* current input digest is given exit code 0 without a child process; over
\* repeated runs with unchanged inputs its child is created at most once.
C19_CacheHitSkipsChild ==
    \A t \in DOMAIN all_tasks :
        CacheEnabled(t) =>
            /\ (runs = 1 /\ CacheHit(t)) =>
                 /\ starts[t] = 0
                 /\ Returned(t) => outcome[t] = Ok(0)
            /\ starts[t] <= 1

\* C20: in every state, a get of a key whose last successful put recorded
\* the current input digest returns an entry with the exit code and the
\* task of that put, and a get of a key that was never put returns absent;
\* no get has returned an entry for a key that was never put.
C20_CacheRoundTrip ==
    /\ \A key \in CacheKeys :
         LET hit == get_cached_result(key, cache_files, inputs) IN
         /\ last_put[key] = None => hit = None
         /\ (last_put[key] # None /\ last_put[key].val.input_digest = inputs) =>
              /\ hit # None
              /\ hit.val.exit_code = last_put[key].val.exit_code
              /\ hit.val.task_name = last_put[key].val.task_name
    /\ \A c \in Clients :
         (got[c] # None /\ got[c].val.entry # None) =>
            /\ last_put[got[c].val.key] # None
            /\ got[c].val.entry.val.task_name \in DOMAIN all_tasks

\* a get returned the entry of a put of exit code 1 for task b, while another
\* key of the same directory had never been put
C20_Witness ==
    /\ got[1] # None
    /\ got[1].val.entry # None
    /\ got[1].val.entry.val.exit_code = 1
    /\ got[1].val.entry.val.task_name = "b"
    /\ last_put[got[1].val.key] # None
    /\ got[1].val.entry.val.timestamp = last_put[got[1].val.key].val.timestamp
    /\ \E key \in CacheKeys :
         /\ key # got[1].val.key
         /\ SubSeq(key, 1, 2) = SubSeq(got[1].val.key, 1, 2)
         /\ last_put[key] = None

(***************************************************************************)
(* Further properties of the plan (specification SpecPlan).                *)
(***************************************************************************)
\* C23: a second call of build_execution_plan with the same configuration
\* and the same requested names returns what this call returned: the same
\* levels with the same order of names inside each level.
C23_PlanDeterministic ==
    built # NoResult =>
        \A other \in build_execution_plan(task_names, all_tasks) : other = built

\* the larger of two numbers, and the largest of a non-empty set
Max(S) == CHOOSE x \in S : \A y \in S : y <= x

\* the earliest level the dependencies of t allow, counted from 0
RECURSIVE EarliestLevel(_)
EarliestLevel(t) ==
    IF DependenciesOf(t) = {} THEN 0
    ELSE 1 + Max({EarliestLevel(d) : d \in DependenciesOf(t)})

\* C24: in every plan returned, a task without dependencies is in level 0
\* and every other task is in the level after the last of the levels of its
\* dependencies (Levels[i] is level i - 1).
C24_EarliestLevel ==
    PlanReturned =>
        \A i \in 1..Len(Levels) : \A t \in Range(Levels[i]) :
            /\ i - 1 = EarliestLevel(t)
            /\ DependenciesOf(t) = {} => i = 1
            /\ i > 1 => DependenciesOf(t) \cap Range(Levels[i - 1]) # {}

\* a plan of two levels whose level 0 holds two tasks, only one of them a
\* dependency of the task of level 1
C24_Witness ==
    /\ PlanReturned
    /\ Len(Levels) = 2
    /\ Len(Levels[1]) = 2
    /\ \E t \in Range(Levels[2]) :
         Cardinality(DependenciesOf(t)) = 1

\* the list without the later occurrences of its names
RECURSIVE Dedup(_)
Dedup(deps) ==
    IF deps = <<>> THEN <<>>
    ELSE LET front == Dedup(SubSeq(deps, 1, Len(deps) - 1))
             last == deps[Len(deps)]
         IN IF last \in Range(front) THEN front ELSE Append(front, last)
\* the configuration with every dependency listed once
DedupConfig(tasks) ==
    [t \in DOMAIN tasks |-> [tasks[t] EXCEPT !.dependencies = Dedup(@)]]
HasDuplicate(deps) == Len(deps) > Cardinality(Range(deps))

\* C25: what build_execution_plan returns for a configuration is something
\* it can return for the configuration with every dependency listed once,
\* and the other way round: same levels, same tasks, no task stranded and
\* none emitted twice.
C25_DuplicatesIgnored ==
    built # NoResult =>
        /\ built \in build_execution_plan(task_names, DedupConfig(all_tasks))
        /\ build_execution_plan(task_names, DedupConfig(all_tasks))
              \subseteq build_execution_plan(task_names, all_tasks)
        /\ PlanReturned =>
             \A t \in Plan.tasks : Cardinality(LevelsOf(t)) = 1

\* a plan of two levels for a task that lists its dependency twice
C25_Witness ==
    /\ PlanReturned
    /\ Len(Levels) >= 2
    /\ \E t \in Plan.tasks :
         /\ HasDuplicate(all_tasks[t].dependencies)
         /\ LevelsOf(t) = {2}

\* C29: when every requested root exists, every dependency of every task
\* reachable from the roots exists and no cycle is reachable from the
\* roots, build_execution_plan returns a plan of the reachable tasks: no
\* check reports a cycle.
C29_PlanConstructionComplete ==
    (built # NoResult /\ AllRootsExist /\ AllReachableExist /\ ~CycleReachable)
        => /\ PlanReturned
           /\ LevelNames = ReachableFrom(Roots)

\* a plan for two requested roots, the second a dependency of the first,
\* and a third task that both depend on
C29_Witness ==
    /\ PlanReturned
    /\ Len(task_names) = 2
    /\ task_names[2] \in DependenciesOf(task_names[1])
    /\ \E d \in Names \ Roots :
         /\ d \in DependenciesOf(task_names[1])
         /\ d \in DependenciesOf(task_names[2])

(***************************************************************************)
(* Further properties of the execution (specifications Spec and            *)
(* SpecDefinitions).                                                       *)
(***************************************************************************)
\* C26: an execution error of a task (its process could not be created, or
\* its definition was refused) is recorded as the entry (task, -1) of the
\* failed list and is never the result of the run; the siblings of the task
\* run to their own outcome, and the run returns the 'Tasks failed' error,
\* which names the task.
C26_ExecutionErrorRecorded ==
    \A t \in DOMAIN all_tasks :
        IsErr(outcome[t]) =>
            /\ result # outcome[t]
            /\ Reported(t) =>
                 /\ <<t, -1>> \in Range(failed_tasks)
                 /\ \A e \in Range(failed_tasks) : e[1] = t => e[2] = -1
            /\ pc = "done" =>
                 /\ IsTasksFailed(result)
                 /\ t \in Range(TasksFailedNames(result.msg))
                 /\ \A u \in Range(Levels[level]) :
                      /\ unit[u] = "joined" /\ Ended(u)
                      /\ u \in Range(TasksFailedNames(result.msg)) <=> Failed(u)

\* a task without command or script was refused while its sibling was run
\* and exited with 0; the run failed naming the refused task alone
C26_Witness ==
    /\ pc = "done"
    /\ IsTasksFailed(result)
    /\ \E t, u \in Range(Levels[level]) :
         /\ outcome[t] = Err(NeitherDefinedMsg)
         /\ Succeeded(u) /\ starts[u] = 1
         /\ result = Err(TasksFailedMsg(<<t>>))

\* C27: within one call no task is started more than once, and only tasks
\* of the plan are started: a task that failed is not started again, nor is
\* a task reached through several roots or paths or requested twice.
C27_StartedAtMostOnce ==
    \A t \in Names :
        /\ starts[t] <= 1
        /\ starts[t] = 1 => (PlanReturned /\ t \in Plan.tasks /\ Launched(t))
        /\ Cardinality({i \in 1..Len(Levels) : t \in Range(Levels[i])}) <= 1

\* a task requested twice, with a dependency, was run once, and so was its
\* dependency
C27_Witness ==
    /\ pc = "done"
    /\ result = Ok(0)
    /\ Len(task_names) = 2
    /\ task_names[1] = task_names[2]
    /\ DependenciesOf(task_names[1]) # {}
    /\ \A t \in Plan.tasks : starts[t] = 1

(***************************************************************************)
(* Termination (specification SpecLive).                                   *)
(***************************************************************************)
\* C30: build_execution_plan returns for every configuration, cyclic or not,
\* and execute_tasks_with_dependencies returns a result when every child
\* process it started terminates; a unit that has completed is joined by its
\* level; and for an empty list of roots the plan is empty, no process is
\* started and the result is Ok(0).
C30_Termination ==
    /\ [](pc = "build" => build_execution_plan(task_names, all_tasks) # {})
    /\ [](built # NoResult => <>[](pc = "done" /\ result # NoResult))
    /\ \A t \in Names : (unit[t] = "complete") ~> (unit[t] = "joined")
    /\ [](task_names = <<>> =>
            /\ \A t \in Names : starts[t] = 0 /\ unit[t] = "none"
            /\ built # NoResult => (IsOk(built) /\ Plan.levels = <<>>
                                     /\ Plan.tasks = {})
            /\ pc = "done" => result = Ok(0))

\* a plan of two levels and three tasks was run to the end, every unit
\* joined, and the function returned
C30_Witness ==
    /\ pc = "done"
    /\ result # NoResult
    /\ Len(Levels) = 2
    /\ Cardinality(Plan.tasks) = 3
    /\ \A t \in Plan.tasks : unit[t] = "joined" /\ exited[t] # None

(***************************************************************************)
(* The lock of failed_tasks (specification SpecMutex).                     *)
(***************************************************************************)
\* the entry a unit records for its task
FailedEntry(t) == IF IsErr(outcome[t]) THEN <<t, -1>> ELSE <<t, outcome[t].val>>
\* a step of the unit of t: every step between its spawn and its completion
UnitStep(t) ==
    /\ unit[t] \in {"spawned", "running", "returned", "locked"}
    /\ unit'[t] # unit[t]

\* C28: the units of a level share the failed list only. The list changes
\* only by the holder of the lock appending its one entry; every unit has at
\* most one entry; the entries are those of the failed tasks whose unit has
\* completed, whatever the interleaving; the lock is held by at most one
\* unit, never by a unit whose child is running, and is free when the level
\* is checked; and a step of a unit changes nothing else than its own
\* task's state, the lock and the list.
C28_FailedListUnderMutex ==
    /\ [](/\ \A t \in Names : mutex = Some(t) <=> unit[t] = "locked"
          /\ mutex # None => \E t \in Names : mutex = Some(t)
          /\ pc \in {"check", "done"} => mutex = None
          /\ \A i, j \in 1..Len(failed_tasks) :
                failed_tasks[i][1] = failed_tasks[j][1] => i = j
          /\ (PlanReturned /\ level \in 1..Len(Levels)) =>
                Range(failed_tasks) =
                    {FailedEntry(t) : t \in {u \in Range(Levels[level]) :
                                                Failed(u) /\ Reported(u)}})
    /\ [][failed_tasks' # failed_tasks =>
            \E t \in Names :
                /\ mutex = Some(t)
                /\ mutex' = None
                /\ failed_tasks' = Append(failed_tasks, FailedEntry(t))]_vars
    /\ [][\A t \in Names : UnitStep(t) =>
            /\ \A u \in Names \ {t} :
                  /\ unit'[u] = unit[u] /\ outcome'[u] = outcome[u]
                  /\ starts'[u] = starts[u] /\ invoked'[u] = invoked[u]
                  /\ exited'[u] = exited[u]
            /\ UNCHANGED <<pc, built, level, next_launch, result, all_tasks,
                           task_names, args>>]_vars

\* two tasks of one level failed; one holds the lock and the other, which
\* has ended too, waits for it while the list is still empty
C28_Witness ==
    /\ pc = "join"
    /\ failed_tasks = <<>>
    /\ \E t, u \in Range(Levels[level]) :
         /\ mutex = Some(t)
         /\ unit[u] = "returned"
         /\ Failed(u)

(***************************************************************************)
(* Timeouts (specification SpecTimeout).                                   *)
(***************************************************************************)
\* the child process of t is running
ChildRunning(t) == unit[t] = "running"

\* C22: the child of a task that defines a timeout is not running after
\* that duration (it was killed and the run of the task has ended), so the
\* level of the task does not wait for it beyond the duration.
C22_TimeoutKillsChild ==
    \A t \in DOMAIN all_tasks :
        (all_tasks[t].timeout # None /\ ChildRunning(t)) =>
            running_for[t] <= all_tasks[t].timeout.val

(***************************************************************************)
(* Concurrent puts and gets (specification SpecConcurrentCache).           *)
(***************************************************************************)
\* no put is in progress
NoPutInProgress == \A c \in Clients : cache_op[c] = None

====
